---- MODULE Spec2Model ----
(***************************************************************************)
(* Verification model of two files of lib_ui:                              *)
(*   src/ui/wrap/vertical_layout.cpp        (VerticalLayout)               *)
(*   src/ui/platform/linux/ui_utility_linux.cpp                            *)
(*                                  (IsOverlapped, TitleControlsLayout)    *)
(*                                                                         *)
(* Three specifications share the module:                                  *)
(*   SpecLayout   the VerticalLayout row list and its children's geometry  *)
(*   SpecOverlap  one call of Ui::Platform::IsOverlapped against an X      *)
(*                server whose replies are chosen nondeterministically     *)
(*   SpecTitle    one call of internal::TitleControlsLayout                *)
(*                                                                         *)
(* Only the vertical axis of the layout is modelled: x positions, widths   *)
(* and the left/right margins never enter a y position or a height in the  *)
(* source (the new height a child takes for a width is an input).          *)
(*                                                                         *)
(* resizeGetHeight is modelled step by step (entry, one step per row,      *)
(* return), because its children notify the layout while it runs.  The     *)
(* only calls admitted while it runs are the ones the source provides for: *)
(* the heightValue() subscriber, and insertChild / reorderRows, which      *)
(* their Expects(!_inResize) stop.  Every other operation is called from   *)
(* the event loop, between passes.  insertChild with a null child changes  *)
(* nothing and is left out.                                                *)
(***************************************************************************)
EXTENDS Integers, Sequences, FiniteSets, TLC

\* ------------------------------------------------------------------ bounds
MaxWidgets == 2

VARIABLES
    rows,          \* _rows: sequence of Row {widget, margin, verticalShift}
    wy,            \* widget -> widget->y()            (QWidget geometry)
    wh,            \* widget -> widget->height()       (QWidget geometry)
    layoutHeight,  \* the layout's own height(), set by resize()
    inResize,      \* _inResize
    pc,            \* "idle", or "resize" while resizeGetHeight is on the stack
    ri,            \* resizeGetHeight: index of the row the loop is at
    result,        \* resizeGetHeight: the local 'result'
    rmargins,      \* resizeGetHeight: the local 'margins'
    \* --- IsOverlapped
    xenv,          \* what the platform and the X server answer to the call's queries
    opc,           \* "start", "scan" (in the loop over the tree) or "done"
    oi,            \* the loop index i (1-based)
    aboveTheWindow,
    oresult,       \* "pending", "nullopt", "true" or "false"
    oexit,         \* the place the call returned from
    hits,          \* indexes scanned so far whose window covers the rect
    \* --- TitleControlsLayout
    xsetting,      \* XSettings: "absent", "invalid", or the Gtk/DecorationLayout text
    portal,        \* portal read: "unread", "none", "readThrows", "castThrows" or text
    tpc,           \* "start", "portal" or "done"
    tresult        \* "pending", "exception", or the returned Layout

layoutVars == <<rows, wy, wh, layoutHeight, inResize, pc, ri, result, rmargins>>

overlapVars == <<xenv, opc, oi, aboveTheWindow, oresult, oexit, hits>>
titleVars == <<xsetting, portal, tpc, tresult>>

vars == <<layoutVars, overlapVars, titleVars>>

\* ------------------------------------------------------------ VerticalLayout
Widgets == 1..MaxWidgets
\* The inputs the operations are tried with.
Heights == {1, 2}
Shifts == {0, 1}

\* The margin each child is inserted with: widget 1 gets {top 0, bottom 2},
\* widget 2 {1, 0}, widget 3 {2, 1}.  Together with WidgetMargins below, both
\* sides of each qMax in getMargins occur.
RowMarginOf(w) == [top |-> (w - 1) % 3, bottom |-> (w + 1) % 3]

qMax(a, b) == IF a >= b THEN a ELSE b

\* RpWidget::getMargins() of a child: virtual, fixed per widget.
\* Widget 1 has a top margin, widget 2 a bottom margin, widget 3 both.
WidgetMargins(w) == [top |-> w % 2, bottom |-> (w \div 2) % 2]

NoMargins == [top |-> 0, bottom |-> 0]

getMargins(rs) ==
    IF rs = <<>> THEN NoMargins
    ELSE [top |-> qMax(WidgetMargins(rs[1].widget).top - rs[1].margin.top, 0),
          bottom |-> qMax(WidgetMargins(rs[Len(rs)].widget).bottom
                          - rs[Len(rs)].margin.bottom, 0)]

\* RpWidget geometry helpers.
heightNoMargins(h, w) == h[w] - WidgetMargins(w).top - WidgetMargins(w).bottom
bottomNoMargins(y, h, w) == y[w] + h[w] - WidgetMargins(w).bottom
moveToLeft(y, w, top) == [y EXCEPT ![w] = top - WidgetMargins(w).top]
fullHeight(w, hNoMargins) == WidgetMargins(w).top + hNoMargins + WidgetMargins(w).bottom

\* margin.top() + heightNoMargins() + margin.bottom() of one row.
RowExtent(row, h) == row.margin.top + heightNoMargins(h, row.widget) + row.margin.bottom

\* Faulty variant of updateChildGeometry: the row's own top margin is left out.
updateChildGeometryNoRowMargin(margins, margin, top) == margins.top + top

\* updateChildGeometry: the y handed to child->moveToLeft.
updateChildGeometry(margins, margin, top) == margins.top + margin.top + top

IndexOf(rs, w) == CHOOSE i \in 1..Len(rs) : rs[i].widget = w
InRows(rs, w) == \E i \in 1..Len(rs) : rs[i].widget = w

\* The loops of childHeightUpdated and removeChild: rows i..Len(rs) are moved
\* to margins.top + top + margin.top, top advancing by each row's extent.
RECURSIVE PlaceRows(_, _, _, _, _, _)
PlaceRows(rs, y, h, margins, i, top) ==
    IF i > Len(rs) THEN [y |-> y, top |-> top]
    ELSE PlaceRows(rs,
                   moveToLeft(y, rs[i].widget, margins.top + top + rs[i].margin.top),
                   h, margins, i + 1, top + RowExtent(rs[i], h))

\* The 'top' lambda of childHeightUpdated and removeChild, margins.top() taken off.
StartTop(rs, y, h, margins, i) ==
    (IF i = 1 THEN margins.top
     ELSE bottomNoMargins(y, h, rs[i - 1].widget) + rs[i - 1].margin.bottom)
    - margins.top

\* childHeightUpdated(child), child at index i: new child positions and the
\* height the layout is resized to.
childHeightUpdated(rs, y, h, i) ==
    LET margins == getMargins(rs)
        placed == PlaceRows(rs, y, h, margins, i, StartTop(rs, y, h, margins, i))
    IN [y |-> placed.y, height |-> margins.top + placed.top + margins.bottom]

RemoveAt(rs, i) == [k \in 1..(Len(rs) - 1) |-> IF k < i THEN rs[k] ELSE rs[k + 1]]
InsertAt(rs, i, row) ==
    [k \in 1..(Len(rs) + 1) |-> IF k < i THEN rs[k] ELSE IF k = i THEN row ELSE rs[k - 1]]

\* removeChild(child), child at index i.  The margins are read before the erase.
removeChild(rs, y, h, i) ==
    LET margins == getMargins(rs)
        placed == PlaceRows(rs, y, h, margins, i + 1, StartTop(rs, y, h, margins, i))
    IN [rows |-> RemoveAt(rs, i),
        y |-> [placed.y EXCEPT ![rs[i].widget] = 0],
        height |-> margins.top + placed.top + margins.bottom]

\* base::reorder(_rows, oldIndex, newIndex) (1-based here).
reorder(rs, old, new) == InsertAt(RemoveAt(rs, old), new, rs[old])

\* The subscriber of child->heightValue() installed by insertChild.
HeightNotified(flag, rs, y, h, lh, w) ==
    IF ~flag
    THEN LET u == childHeightUpdated(rs, y, h, IndexOf(rs, w))
         IN [y |-> u.y, height |-> u.height, ran |-> TRUE]
    ELSE [y |-> y, height |-> lh, ran |-> FALSE]


\* insertChild(atPosition, child, margin): Expects at lines 122-123; the new
\* subscription fires at once with the child's current height.
insertChild(atPosition, child, margin, h0) ==
    /\ atPosition >= 1 /\ atPosition <= Len(rows) + 1
    /\ ~inResize
    /\ ~InRows(rows, child)
    /\ LET rs == InsertAt(rows, atPosition,
                          [widget |-> child, margin |-> margin, verticalShift |-> 0])
           h == [wh EXCEPT ![child] = fullHeight(child, h0)]
           y == [wy EXCEPT ![child] = 0]
           n == HeightNotified(inResize, rs, y, h, layoutHeight, child)
       IN /\ rows' = rs
          /\ wh' = h
          /\ wy' = n.y
          /\ layoutHeight' = n.height
    /\ UNCHANGED <<inResize, pc, ri, result, rmargins>>

InsertChild ==
    \E p \in 1..MaxWidgets, c \in Widgets, h0 \in Heights :
        insertChild(p, c, RowMarginOf(c), h0)

\* setVerticalShift(index, shift), called from the event loop.
setVerticalShift(index, shift) ==
    /\ pc = "idle"
    /\ index >= 1 /\ index <= Len(rows)
    /\ LET delta == shift - rows[index].verticalShift
       IN /\ delta # 0
          /\ rows' = [rows EXCEPT ![index].verticalShift = shift]
          /\ wy' = [wy EXCEPT ![rows[index].widget] = @ + delta]
    /\ UNCHANGED <<wh, layoutHeight, inResize, pc, ri, result, rmargins>>

SetVerticalShift ==
    \E i \in 1..MaxWidgets, s \in Shifts : setVerticalShift(i, s)

\* A child changes its own height outside of a resize pass; heightValue()
\* is distinct_until_changed, so only a new height is notified.
ChildHeightChanged ==
    \E w \in Widgets, h1 \in Heights :
        /\ pc = "idle"
        /\ InRows(rows, w)
        /\ fullHeight(w, h1) # wh[w]
        /\ LET h == [wh EXCEPT ![w] = fullHeight(w, h1)]
               n == HeightNotified(inResize, rows, wy, h, layoutHeight, w)
           IN /\ wh' = h
              /\ wy' = n.y
              /\ layoutHeight' = n.height
            /\ UNCHANGED <<rows, inResize, pc, ri, result, rmargins>>

\* removeChild(child): the 'done' callback of the subscription, or clear().
RemoveChild ==
    \E w \in Widgets :
        /\ pc = "idle"
        /\ InRows(rows, w)
        /\ LET r == removeChild(rows, wy, wh, IndexOf(rows, w))
           IN /\ rows' = r.rows
              /\ wy' = r.y
              /\ wh' = [wh EXCEPT ![w] = 0]
              /\ layoutHeight' = r.height
            /\ UNCHANGED <<inResize, pc, ri, result, rmargins>>

\* Faulty variant of EnterResize: _inResize is not raised.
EnterResizeFlagNotSet(rs, flag) ==
    /\ inResize' = FALSE
    /\ rmargins' = getMargins(rs)
    /\ result' = 0
    /\ ri' = 1
    /\ pc' = "resize"

\* Entry of resizeGetHeight (lines 72-76), reached through resizeToWidth.
EnterResize(rs, flag) ==
    /\ inResize' = flag
    /\ rmargins' = getMargins(rs)
    /\ result' = 0
    /\ ri' = 1
    /\ pc' = "resize"

ResizeBegin ==
    /\ pc = "idle"
    /\ EnterResize(rows, TRUE)
    /\ UNCHANGED <<rows, wy, wh, layoutHeight>>

\* reorderRows(oldIndex, newIndex): Expects at lines 63-65, then
\* resizeToWidth(width()).
reorderRows(oldIndex, newIndex) ==
    /\ oldIndex >= 1 /\ oldIndex <= Len(rows)
    /\ newIndex >= 1 /\ newIndex <= Len(rows)
    /\ ~inResize
    /\ rows' = reorder(rows, oldIndex, newIndex)
    /\ EnterResize(rows', TRUE)
    /\ UNCHANGED <<wy, wh, layoutHeight>>

ReorderRows ==
    \E o \in 1..MaxWidgets, n \in 1..MaxWidgets : reorderRows(o, n)

\* One iteration of the loop of resizeGetHeight (lines 77-87):
\* resizeToNaturalWidth gives the child its height for the width (h1), which
\* notifies the subscriber when it differs; then the child is moved.
ResizeRow ==
    \E h1 \in Heights :
        /\ pc = "resize"
        /\ ri <= Len(rows)
        /\ LET row == rows[ri]
               w == row.widget
               h == [wh EXCEPT ![w] = fullHeight(w, h1)]
               n == IF h[w] # wh[w]
                    THEN HeightNotified(inResize, rows, wy, h, layoutHeight, w)
                    ELSE [y |-> wy, height |-> layoutHeight, ran |-> FALSE]
           IN /\ wh' = h
              /\ wy' = moveToLeft(n.y, w,
                         updateChildGeometry(rmargins, row.margin,
                                             result + row.verticalShift))
              /\ layoutHeight' = n.height
              /\ result' = result + RowExtent(row, h)
        /\ ri' = ri + 1
        /\ UNCHANGED <<rows, inResize, pc, rmargins>>

\* Return of resizeGetHeight (the gsl::finally guard); its caller
\* RpWidget::resizeToWidth then resizes the layout to the returned height
\* plus the outer margins.
ResizeEnd ==
    /\ pc = "resize"
    /\ ri > Len(rows)
    /\ inResize' = FALSE
    /\ layoutHeight' = rmargins.top + result + rmargins.bottom
    /\ pc' = "idle"
    /\ ri' = 0
    /\ result' = 0
    /\ rmargins' = NoMargins
    /\ UNCHANGED <<rows, wy, wh>>

LayoutNext ==
    \/ InsertChild /\ UNCHANGED <<overlapVars, titleVars>>
    \/ SetVerticalShift /\ UNCHANGED <<overlapVars, titleVars>>
    \/ ChildHeightChanged /\ UNCHANGED <<overlapVars, titleVars>>
    \/ RemoveChild /\ UNCHANGED <<overlapVars, titleVars>>
    \/ ResizeBegin /\ UNCHANGED <<overlapVars, titleVars>>
    \/ ReorderRows /\ UNCHANGED <<overlapVars, titleVars>>
    \/ ResizeRow /\ UNCHANGED <<overlapVars, titleVars>>
    \/ ResizeEnd /\ UNCHANGED <<overlapVars, titleVars>>

LayoutParked ==
    /\ rows = <<>>
    /\ wy = [w \in Widgets |-> 0]
    /\ wh = [w \in Widgets |-> 0]
    /\ layoutHeight = 0
    /\ inResize = FALSE
    /\ pc = "idle"
    /\ ri = 0
    /\ result = 0
    /\ rmargins = NoMargins

\* ---------------------------------------------------------------- IsOverlapped
MaxWindows == 3

\* 0xFFFFFFFF, the _NET_WM_DESKTOP value of a window shown on all workspaces.
\* TLC's integers are 32-bit signed, so the model writes the largest value it
\* can hold; the source only ever tests a workspace for equality with it.
AllWorkspaces == 2147483647

\* Replies the X server can give.  An optional<uint> is the empty set
\* (std::nullopt, the property cannot be read) or the set of its value; an
\* optional<bool> is "none", "true" or "false".
WorkspaceReplies == {{}, {0}, {1}, {AllWorkspaces}}
CurrentWorkspaceReplies == {{}, {0}, {1}}
OptBool == {"none", "true", "false"}
NullRect == [x |-> 0, y |-> 0, w |-> 0, h |-> 0]
WindowGeometries == {NullRect, [x |-> 0, y |-> 0, w |-> 8, h |-> 8],
                     [x |-> 4, y |-> 0, w |-> 8, h |-> 8]}
OtherGeometries == {NullRect, [x |-> 0, y |-> 0, w |-> 2, h |-> 2],
                    [x |-> 3, y |-> 3, w |-> 4, h |-> 4]}
WidgetRects == {[x |-> 1, y |-> 1, w |-> 2, h |-> 2]}
PixelRatios == {1, 2}

\* widget->winId()
window == 1
WindowIds == 1..MaxWindows

\* The children lists xcb_query_tree can reply: windows listed at most once.
Trees ==
    { t \in UNION { [1..n -> WindowIds] : n \in 0..MaxWindows } :
        \A a, b \in DOMAIN t : a # b => t[a] # t[b] }

\* QRect::isNull and QRect::intersects, for rectangles of width, height >= 0.
IsNull(r) == r.w = 0 /\ r.h = 0
Intersects(a, b) ==
    /\ ~IsNull(a) /\ ~IsNull(b)
    /\ ~(a.x > b.x + b.w - 1 \/ b.x > a.x + a.w - 1)
    /\ ~(a.y > b.y + b.h - 1 \/ b.y > a.y + a.h - 1)

\* The mapped rect of lines 235-239, for an integral devicePixelRatio.
MappedRect(rect, dpr, windowGeometry) ==
    [x |-> rect.x * dpr + windowGeometry.x,
     y |-> rect.y * dpr + windowGeometry.y,
     w |-> rect.w * dpr,
     h |-> rect.h * dpr]

\* The test of lines 223-226 and 268-271: both workspaces known, different,
\* and the first one not 0xFFFFFFFF.
OnOtherWorkspace(workspace, other) ==
    /\ workspace # {}
    /\ other # {}
    /\ workspace # other
    /\ workspace # {AllWorkspaces}

\* Faulty variant of BeforeScan: a null window geometry answers false.
BeforeScanGeometryFalse(e) ==
    IF ~e.isX11 THEN [result |-> "nullopt", exit |-> "platform"]
    ELSE IF ~e.connection THEN [result |-> "nullopt", exit |-> "connection"]
    ELSE IF ~e.root THEN [result |-> "nullopt", exit |-> "root"]
    ELSE IF OnOtherWorkspace(e.windowWorkspace, e.currentWorkspace)
         THEN [result |-> "true", exit |-> "workspace"]
    ELSE IF IsNull(e.windowGeometry) THEN [result |-> "false", exit |-> "geometry"]
    ELSE IF ~e.treeOk THEN [result |-> "nullopt", exit |-> "tree"]
    ELSE [result |-> "scan", exit |-> "scan"]

\* IsOverlapped and XCBIsOverlapped up to the tree query: "nullopt" or "true"
\* when the call returns there, "scan" when it goes on to the loop.
BeforeScan(e) ==
    IF ~e.isX11 THEN [result |-> "nullopt", exit |-> "platform"]
    ELSE IF ~e.connection THEN [result |-> "nullopt", exit |-> "connection"]
    ELSE IF ~e.root THEN [result |-> "nullopt", exit |-> "root"]
    ELSE IF OnOtherWorkspace(e.windowWorkspace, e.currentWorkspace)
         THEN [result |-> "true", exit |-> "workspace"]
    ELSE IF IsNull(e.windowGeometry) THEN [result |-> "nullopt", exit |-> "geometry"]
    ELSE IF ~e.treeOk THEN [result |-> "nullopt", exit |-> "tree"]
    ELSE [result |-> "scan", exit |-> "scan"]

\* Faulty variant of ScanRow: the test for 0xFFFFFFFF is left out.
ScanRowNoAllWorkspaces(id, above, mappedRect, windowWorkspace, geometry, workspace, mapped, hidden) ==
    IF id = window THEN "own"
    ELSE IF ~above THEN "continue"
    ELSE IF ~Intersects(mappedRect, geometry) THEN "continue"
    ELSE IF workspace # {} /\ windowWorkspace # {} /\ workspace # windowWorkspace
         THEN "continue"
    ELSE IF mapped = "false" THEN "continue"
    ELSE IF hidden = "true" THEN "continue"
    ELSE "true"

\* One iteration of the loop of lines 252-286 on tree[i] = id, whose geometry,
\* workspace, map state and hidden state the server reports as given:
\* "own" (aboveTheWindow is set), "continue" or "true" (return true).
ScanRow(id, above, mappedRect, windowWorkspace, geometry, workspace, mapped, hidden) ==
    IF id = window THEN "own"
    ELSE IF ~above THEN "continue"
    ELSE IF ~Intersects(mappedRect, geometry) THEN "continue"
    ELSE IF OnOtherWorkspace(workspace, windowWorkspace) THEN "continue"
    ELSE IF mapped = "false" THEN "continue"
    ELSE IF hidden = "true" THEN "continue"
    ELSE "true"

\* What the properties call a window 'covering' the rect, from its reported
\* state; 'hits' records the scanned indexes where it holds.
Covers(mappedRect, windowWorkspace, geometry, workspace, mapped, hidden) ==
    /\ Intersects(mappedRect, geometry)
    /\ ~(\E a \in workspace, b \in windowWorkspace : a # b /\ a # AllWorkspaces)
    /\ mapped # "false"
    /\ hidden # "true"

Environments ==
    [isX11 : BOOLEAN, connection : BOOLEAN, root : BOOLEAN,
     windowWorkspace : WorkspaceReplies,
     currentWorkspace : CurrentWorkspaceReplies,
     windowGeometry : WindowGeometries,
     rect : WidgetRects, dpr : PixelRatios,
     treeOk : BOOLEAN, tree : Trees]

OverlapInit ==
    /\ xenv \in { e \in Environments : ~e.treeOk => e.tree = <<>> }
    /\ opc = "start"
    /\ oi = 0
    /\ aboveTheWindow = FALSE
    /\ oresult = "pending"
    /\ oexit = "none"
    /\ hits = {}

OverlapParked ==
    /\ xenv = [isX11 |-> FALSE, connection |-> FALSE, root |-> FALSE,
               windowWorkspace |-> {}, currentWorkspace |-> {},
               windowGeometry |-> NullRect,
               rect |-> NullRect, dpr |-> 1, treeOk |-> FALSE, tree |-> <<>>]
    /\ opc = "done"
    /\ oi = 0
    /\ aboveTheWindow = FALSE
    /\ oresult = "nullopt"
    /\ oexit = "platform"
    /\ hits = {}

\* IsOverlapped(widget, rect) up to the loop.
OverlapCall ==
    /\ opc = "start"
    /\ LET b == BeforeScan(xenv)
       IN /\ oexit' = b.exit
          /\ IF b.result = "scan"
             THEN /\ opc' = "scan"
                  /\ oi' = 1
                  /\ oresult' = oresult
             ELSE /\ opc' = "done"
                  /\ oi' = oi
                  /\ oresult' = b.result
    /\ aboveTheWindow' = FALSE
    /\ UNCHANGED <<xenv, hits>>

\* One iteration of the loop; the server's replies about tree[i] are inputs.
OverlapScanRow ==
    \E geometry \in OtherGeometries, workspace \in WorkspaceReplies,
       mapped \in OptBool, hidden \in OptBool :
        /\ opc = "scan"
        /\ oi <= Len(xenv.tree)
        /\ LET mappedRect == MappedRect(xenv.rect, xenv.dpr, xenv.windowGeometry)
               step == ScanRow(xenv.tree[oi], aboveTheWindow, mappedRect,
                               xenv.windowWorkspace, geometry, workspace, mapped, hidden)
           IN /\ hits' = IF /\ xenv.tree[oi] # window
                            /\ Covers(mappedRect, xenv.windowWorkspace,
                                      geometry, workspace, mapped, hidden)
                         THEN hits \cup {oi} ELSE hits
              /\ aboveTheWindow' = (aboveTheWindow \/ step = "own")
              /\ IF step = "true"
                 THEN /\ opc' = "done"
                      /\ oresult' = "true"
                      /\ oi' = oi
                 ELSE /\ opc' = "scan"
                      /\ oresult' = oresult
                      /\ oi' = oi + 1
        /\ UNCHANGED <<xenv, oexit>>

\* The loop ran off the end of the tree: return false.
OverlapScanEnd ==
    /\ opc = "scan"
    /\ oi > Len(xenv.tree)
    /\ opc' = "done"
    /\ oresult' = "false"
    /\ UNCHANGED <<xenv, oi, aboveTheWindow, oexit, hits>>

OverlapNext ==
    \/ OverlapCall /\ UNCHANGED <<layoutVars, titleVars>>
    \/ OverlapScanRow /\ UNCHANGED <<layoutVars, titleVars>>
    \/ OverlapScanEnd /\ UNCHANGED <<layoutVars, titleVars>>

\* ---------------------------------------------------------- TitleControlsLayout
MaxLen == 3

\* A text is a sequence of symbols: the three keywords, another word, and the
\* separators ':' and ','.  A keyword matches only a part that is exactly it.
Symbols == {"minimize", "maximize", "close", "icon", ":", ","}
Texts == UNION { [1..n -> Symbols] : n \in 0..MaxLen }

\* QString::split(sep): the parts between the separators, empty ones kept.
RECURSIVE Split(_, _)
Split(text, sep) ==
    IF \A k \in 1..Len(text) : text[k] # sep THEN <<text>>
    ELSE LET k == CHOOSE j \in 1..Len(text) :
                      text[j] = sep /\ \A m \in 1..(j - 1) : text[m] # sep
         IN <<SubSeq(text, 1, k - 1)>> \o Split(SubSeq(text, k + 1, Len(text)), sep)

GtkKeywordToTitleControl(keyword) ==
    IF keyword = <<"minimize">> THEN "Minimize"
    ELSE IF keyword = <<"maximize">> THEN "Maximize"
    ELSE IF keyword = <<"close">> THEN "Close"
    ELSE "Unknown"

Controls(part) ==
    LET words == Split(part, ",")
    IN [k \in 1..Len(words) |-> GtkKeywordToTitleControl(words[k])]

GtkKeywordsToTitleControlsLayout(keywords) ==
    LET splitted == Split(keywords, ":")
    IN [kind |-> "layout",
        left |-> Controls(splitted[1]),
        right |-> IF Len(splitted) > 1 THEN Controls(splitted[2]) ELSE <<>>]

\* The layout of lines 630-636.
DefaultLayout ==
    [kind |-> "layout", left |-> <<>>, right |-> <<"Minimize", "Maximize", "Close">>]

NoLayout(kind) == [kind |-> kind, left |-> <<>>, right |-> <<>>]

\* The xSettingsResult lambda (lines 584-597): a layout, or nullopt.
XSettingsResult(xs) ==
    IF xs.state = "absent" THEN NoLayout("nullopt")
    ELSE IF xs.state = "invalid" THEN NoLayout("nullopt")
    ELSE GtkKeywordsToTitleControlsLayout(xs.text)

\* Faulty variant of PortalResult: the exception of the cast is not caught.
PortalResultCastEscapes(p) ==
    IF p.state = "readThrows" THEN NoLayout("nullopt")
    ELSE IF p.state = "none" THEN NoLayout("nullopt")
    ELSE IF p.state = "castThrows" THEN NoLayout("exception")
    ELSE GtkKeywordsToTitleControlsLayout(p.text)

\* The portalResult lambda (lines 604-624): ReadSetting or the cast may throw,
\* which the catch turns into nullopt.
PortalResult(p) ==
    IF p.state = "readThrows" THEN NoLayout("nullopt")
    ELSE IF p.state = "none" THEN NoLayout("nullopt")
    ELSE IF p.state = "castThrows" THEN NoLayout("nullopt")
    ELSE GtkKeywordsToTitleControlsLayout(p.text)

XSettingsStates ==
    {[state |-> "absent", text |-> <<>>], [state |-> "invalid", text |-> <<>>]}
    \cup { [state |-> "valid", text |-> t] : t \in Texts }

PortalReplies ==
    { [state |-> st, text |-> <<>>] : st \in {"none", "readThrows", "castThrows"} }
    \cup { [state |-> "value", text |-> t] : t \in Texts }

TitleInit ==
    /\ xsetting \in XSettingsStates
    /\ portal = [state |-> "unread", text |-> <<>>]
    /\ tpc = "start"
    /\ tresult = NoLayout("pending")

TitleParked ==
    /\ xsetting = [state |-> "absent", text |-> <<>>]
    /\ portal = [state |-> "unread", text |-> <<>>]
    /\ tpc = "done"
    /\ tresult = DefaultLayout

\* TitleControlsLayout() up to line 602.
TitleXSettings ==
    /\ tpc = "start"
    /\ LET r == XSettingsResult(xsetting)
       IN IF r.kind = "layout"
          THEN tpc' = "done" /\ tresult' = r
          ELSE tpc' = "portal" /\ tresult' = tresult
    /\ UNCHANGED <<xsetting, portal>>

\* TitleControlsLayout() from line 604 on; the portal's reply is an input.
TitlePortal ==
    \E p \in PortalReplies :
        /\ tpc = "portal"
        /\ portal' = p
        /\ LET r == PortalResult(p)
           IN tresult' = IF r.kind = "layout" THEN r
                         ELSE IF r.kind = "nullopt" THEN DefaultLayout
                         ELSE r
        /\ tpc' = "done"
        /\ UNCHANGED xsetting

TitleNext ==
    \/ TitleXSettings /\ UNCHANGED <<layoutVars, overlapVars>>
    \/ TitlePortal /\ UNCHANGED <<layoutVars, overlapVars>>

\* -------------------------------------------------------------- specifications
\* Each specification runs one of the three machines; the other two stay put.
InitLayout == LayoutParked /\ OverlapParked /\ TitleParked
InitOverlap == LayoutParked /\ OverlapInit /\ TitleParked
InitTitle == LayoutParked /\ OverlapParked /\ TitleInit

SpecLayout == InitLayout /\ [][LayoutNext]_vars
SpecOverlap == InitOverlap /\ [][OverlapNext]_vars
SpecTitle == InitTitle /\ [][TitleNext]_vars

\* ------------------------------------------------- VerticalLayout: properties

\* The stacking the claims speak of, written out from the rows and the child
\* geometry alone.
ExtentOf(rs, h, k) ==
    rs[k].margin.top
    + (h[rs[k].widget] - WidgetMargins(rs[k].widget).top - WidgetMargins(rs[k].widget).bottom)
    + rs[k].margin.bottom

RECURSIVE SumExtents(_, _, _)
SumExtents(rs, h, n) == IF n = 0 THEN 0 ELSE SumExtents(rs, h, n - 1) + ExtentOf(rs, h, n)

OuterTop(rs) ==
    IF Len(rs) = 0 THEN 0
    ELSE IF WidgetMargins(rs[1].widget).top > rs[1].margin.top
         THEN WidgetMargins(rs[1].widget).top - rs[1].margin.top ELSE 0

OuterBottom(rs) ==
    IF Len(rs) = 0 THEN 0
    ELSE IF WidgetMargins(rs[Len(rs)].widget).bottom > rs[Len(rs)].margin.bottom
         THEN WidgetMargins(rs[Len(rs)].widget).bottom - rs[Len(rs)].margin.bottom ELSE 0

\* Top of the content of row k's widget (its y plus its own top margin).
ContentTop(rs, y, k) == y[rs[k].widget] + WidgetMargins(rs[k].widget).top

StackedTop(rs, h, k) ==
    OuterTop(rs) + rs[k].margin.top + rs[k].verticalShift + SumExtents(rs, h, k - 1)

Order(rs) == [k \in 1..Len(rs) |-> rs[k].widget]

\* C1: when the loop of resizeGetHeight has run over all rows, every row i
\* sits at outerMargins.top + margin_i.top + verticalShift_i + the extents
\* (margin.top + heightNoMargins + margin.bottom) of the rows before it, and
\* the height about to be returned is the sum of all extents, whatever the
\* shifts are; with no rows it is 0.
C1_ResizeGetHeightStacks ==
    (pc = "resize" /\ ri > Len(rows)) =>
        /\ result = SumExtents(rows, wh, Len(rows))
        /\ \A i \in 1..Len(rows) : ContentTop(rows, wy, i) = StackedTop(rows, wh, i)
        /\ (Len(rows) = 0 => result = 0)

\* C1 witness: a finished pass over two rows, the first one shifted and with
\* a margin, so that a shift leaking into the sum would move the second row.
C1_Witness ==
    /\ pc = "resize" /\ ri > Len(rows) /\ Len(rows) >= 2
    /\ rows[1].verticalShift # 0
    /\ rows[1].margin.bottom # 0
    /\ result > 0

\* C5 (as claimed): between operations every row sits at its stacking
\* position plus its current verticalShift.
C5_ShiftKeptAfterAnyOperation ==
    pc = "idle" =>
        \A i \in 1..Len(rows) : ContentTop(rows, wy, i) = StackedTop(rows, wh, i)

\* C6: _inResize is true exactly while resizeGetHeight is executing; a height
\* notification inside the pass leaves every other child and the layout's
\* height alone, one outside the pass restacks (the layout's height follows
\* the last row's bottom); the row order never changes by an insertion or a
\* reorder while a pass is executing.
C6_InResizeGuardsReentrancy ==
    /\ [](inResize <=> pc = "resize")
    /\ [][(pc = "resize" /\ pc' = "resize" /\ ri' = ri + 1) =>
             /\ inResize
             /\ layoutHeight' = layoutHeight
             /\ \A w \in Widgets : w # rows[ri].widget => wy'[w] = wy[w]]_vars
    /\ [][(pc = "idle" /\ pc' = "idle" /\ rows' = rows /\ wh' # wh) =>
             /\ ~inResize
             /\ layoutHeight' = OuterTop(rows)
                    + (wy'[rows[Len(rows)].widget] + wh'[rows[Len(rows)].widget]
                       - WidgetMargins(rows[Len(rows)].widget).bottom
                       + rows[Len(rows)].margin.bottom - OuterTop(rows))
                    + OuterBottom(rows)]_vars
    /\ [][(Order(rows') # Order(rows) /\ Len(rows') >= Len(rows)) =>
             (pc = "idle" /\ ~inResize)]_vars

\* C6 witness: inside a pass, one row done and another still to do.
C6_Witness ==
    /\ pc = "resize" /\ inResize /\ ri > 1 /\ ri <= Len(rows)
    /\ layoutHeight # OuterTop(rows) + SumExtents(rows, wh, Len(rows)) + OuterBottom(rows)

\* C7 (as claimed): removeChild takes out exactly the child's row, leaves the
\* rows before it where they are, stacks every later row directly below its
\* new predecessor, and resizes the layout to the outer margins of the
\* remaining rows around the sum of their extents.
C7_RemoveChildPost ==
    LET i == CHOOSE k \in 1..Len(rows) : k > Len(rows') \/ rows'[k] # rows[k]
    IN /\ \A k \in 1..Len(rows') : rows'[k] = (IF k < i THEN rows[k] ELSE rows[k + 1])
       /\ \A k \in 1..(i - 1) : wy'[rows[k].widget] = wy[rows[k].widget]
       /\ \A k \in i..Len(rows') :
            ContentTop(rows', wy', k) =
                (IF k = 1 THEN OuterTop(rows')
                 ELSE wy'[rows'[k - 1].widget] + wh'[rows'[k - 1].widget]
                      - WidgetMargins(rows'[k - 1].widget).bottom
                      + rows'[k - 1].margin.bottom)
                + rows'[k].margin.top
       /\ layoutHeight' = OuterTop(rows') + SumExtents(rows', wh', Len(rows'))
                          + OuterBottom(rows')

\* C7 (as claimed), for every step that takes a row out: the row count drops
\* by one and the post-condition above holds.
C7_RemoveChildRemovesOneRow ==
    [][Len(rows') = Len(rows) - 1 => C7_RemoveChildPost]_vars

\* --------------------------------------------------- IsOverlapped: properties

\* Index of the widget's own window in the tree, 0 when it is not listed.
OwnPosition ==
    IF \E k \in 1..Len(xenv.tree) : xenv.tree[k] = window
    THEN CHOOSE k \in 1..Len(xenv.tree) : xenv.tree[k] = window
    ELSE 0

AllQueriesSucceed ==
    /\ xenv.isX11 /\ xenv.connection /\ xenv.root
    /\ ~(xenv.windowGeometry.w = 0 /\ xenv.windowGeometry.h = 0)
    /\ xenv.treeOk

\* The widget's window is known to be on a workspace that is not the current one.
WindowOnOtherWorkspace ==
    \E a \in xenv.windowWorkspace, b \in xenv.currentWorkspace :
        a # b /\ a # AllWorkspaces

\* C2: when every query succeeds and the widget's window is not known to be
\* on another workspace, the call answers from the scan, and it answers true
\* exactly when a covering window was met after the widget's own window;
\* covering windows before it do not count, with the own window not listed
\* the answer is false, and the scan never runs past a covering window that
\* follows the own window.
C2_OverlappedIffCoveredAbove ==
    /\ (opc = "done" /\ AllQueriesSucceed /\ ~WindowOnOtherWorkspace) =>
          /\ oexit = "scan"
          /\ oresult \in {"true", "false"}
          /\ (oresult = "true") <=>
                (\E k \in hits : OwnPosition # 0 /\ k > OwnPosition)
          /\ (OwnPosition = 0 => oresult = "false")
    /\ opc = "scan" =>
          /\ hits \subseteq 1..(oi - 1)
          /\ \A k \in hits : OwnPosition = 0 \/ k < OwnPosition
          /\ aboveTheWindow <=> (OwnPosition # 0 /\ OwnPosition < oi)

\* C2 witness: the answer is true although a covering window also precedes
\* the widget's own window in the tree.
C2_Witness ==
    /\ opc = "done" /\ oexit = "scan" /\ oresult = "true"
    /\ OwnPosition = 2
    /\ hits = {1, 3}

\* C3: false is only answered after the whole tree was scanned; without X11,
\* a connection or a root window the answer is nullopt; with a null window
\* geometry or a failed tree query it is nullopt unless the workspace test
\* already answered; and the only definite answer given before the scan is
\* true, for a window known to be on another, not-all, workspace.
C3_NeverFalseWithoutInspection ==
    opc = "done" =>
        /\ oresult = "false" =>
              (AllQueriesSucceed /\ oexit = "scan" /\ oi > Len(xenv.tree))
        /\ (~xenv.isX11 \/ ~xenv.connection \/ ~xenv.root) => oresult = "nullopt"
        /\ ~AllQueriesSucceed =>
              (oresult = "nullopt" \/ (oresult = "true" /\ WindowOnOtherWorkspace))
        /\ (oexit # "scan" /\ oresult # "nullopt") =>
              (oresult = "true" /\ oexit = "workspace" /\ WindowOnOtherWorkspace)
        /\ (oexit = "workspace") => (xenv.isX11 /\ xenv.connection /\ xenv.root)

\* C3 witness: a definite true from the workspace test, although the window
\* geometry would have been null.
C3_Witness ==
    /\ opc = "done" /\ oresult = "true" /\ oexit = "workspace"
    /\ xenv.windowGeometry = NullRect
    /\ xenv.windowWorkspace = {1} /\ xenv.currentWorkspace = {0}

\* -------------------------------------------- TitleControlsLayout: properties

\* C4: the XSettings value wins when it is valid, and then the portal is not
\* read; otherwise a value read from the portal is parsed; otherwise (no
\* value, or an exception from the read or the cast) the default layout, no
\* controls left and Minimize, Maximize, Close right, is returned.  A layout
\* is returned in every case.
C4_TitleControlsPriority ==
    tpc = "done" =>
        /\ tresult.kind = "layout"
        /\ xsetting.state = "valid" =>
              /\ tresult = GtkKeywordsToTitleControlsLayout(xsetting.text)
              /\ portal.state = "unread"
        /\ xsetting.state # "valid" =>
              /\ portal.state # "unread"
              /\ portal.state = "value" =>
                    tresult = GtkKeywordsToTitleControlsLayout(portal.text)
              /\ portal.state \in {"none", "readThrows", "castThrows"} =>
                    /\ tresult.left = <<>>
                    /\ tresult.right = <<"Minimize", "Maximize", "Close">>

\* C4 witness: XSettings exists but has no valid value, and the portal's
\* "close:minimize" is what is returned.
C4_Witness ==
    /\ tpc = "done"
    /\ xsetting.state = "invalid"
    /\ portal = [state |-> "value", text |-> <<"close", ":", "minimize">>]
    /\ tresult.left = <<"Close">>
    /\ tresult.right = <<"Minimize">>

====
